---- MODULE Spec2Model ----
(***************************************************************************)
(* State-machine model of the arunabha_algo_bot core:                      *)
(*   - data/websocket_manager.py  (BinanceWSFeed, WebSocketManager)        *)
(*   - data/cache_manager.py      (CacheManager OHLCV cache)               *)
(*   - core/engine.py             (ArunabhaEngine candle-close loop)       *)
(*   - risk/*.py                  (RiskManager and its three trackers)     *)
(*   - filters/*.py               (FilterOrchestrator and its three tiers) *)
(*                                                                         *)
(* A candle is represented by its open_time_ms (candle[0]); the OHLCV      *)
(* values take part in no branch of the modelled code.  Prices are         *)
(* integers; percentages are kept in hundredths of a percent.              *)
(***************************************************************************)
EXTENDS Integers, Sequences, FiniteSets, TLC

\* ------------------------------------------------------------------ bounds
MaxTime == 2            \* candle open times are 1..MaxTime
MaxMsgs == 2            \* kline messages handled in one behaviour
CACHE_SIZE == 2         \* config.CACHE_SIZE (100), scaled down
BTC_MIN_CANDLES == 2    \* the ">= 50" readiness threshold, scaled down
REGIME_MIN_CANDLES == 1 \* the "< 30" data threshold, scaled down
WS_MAX_RETRIES == 2     \* config.WS_MAX_RETRIES (10), scaled down
MaxNow == 15            \* the clock stops advancing at MaxNow minutes
MaxDay == 1             \* the calendar stops advancing at day MaxDay
MaxHoldNow == 105       \* the clock limit of the holding-time scenario
MaxEvaluations == 1     \* FilterOrchestrator.evaluate calls in one behaviour

\* ------------------------------------------------------- program constants
BTC == "BTC/USDT"
ETH == "ETH/USDT"
Symbols == {BTC, ETH}
PRIMARY_TF == "15m"
TIMEFRAMES == {"15m", "1h"}
Keys == Symbols \X TIMEFRAMES
Times == 1..MaxTime
Triples == Symbols \X TIMEFRAMES \X Times

MAX_CONCURRENT == 1
MAX_SIGNALS_DEFAULT == 4          \* MAX_SIGNALS_PER_DAY["default"]
MAX_DAILY_DRAWDOWN_X100 == 200    \* abs(MAX_DAILY_DRAWDOWN_PCT) = 2.0 %
DAILY_PROFIT_TARGET_X100 == 50000 \* DAILY_PROFIT_TARGET = 500
MAX_CONSECUTIVE_LOSSES == 2
COOLDOWN_MINUTES == 15
BREAK_EVEN_AT_R_X10 == 5          \* BREAK_EVEN_AT_R = 0.5
PARTIAL_EXIT_AT_R_X10 == 10       \* PARTIAL_EXIT_AT_R = 1.0
RISK_PER_TRADE_X10 == 10          \* RISK_PER_TRADE = 1.0 %
MAX_POSITION_PCT == 30
MIN_POSITION_SIZE == 10
MAX_ATR_PCT_X10 == 30             \* MAX_ATR_PCT = 3.0
TickMinutes == 15                 \* granularity of the modelled clock
WS_RECONNECT_DELAY == 5           \* seconds
MIN_FILTER_CANDLES == 20          \* "need 20 candles" of the Tier-1 structure and volume gates

\* inputs of the RiskManager calls
\* <<direction, entry, stop_loss, take_profit>> of approve_trade: a well-formed
\* LONG and SHORT, a signal whose stop equals its entry, and a LONG whose
\* stop lies above its entry
Signals == { <<"LONG", 100, 98, 106>>, <<"SHORT", 100, 102, 94>>,
             <<"LONG", 100, 100, 106>>, <<"LONG", 100, 102, 106>> }
Prices == {94, 98, 99, 100, 101, 102, 106}   \* current_price of update_trade
ExitPrices == {99, 102}                        \* exit_price of close_trade
Accounts == {1000}
AtrPctsX10 == {10, 35}
FearIndexes == {50}
MarketTypes == {"trending"}
HoldingMarketTypes == {"trending", "choppy"}     \* market_type, for the holding limits

\* inputs of FilterOrchestrator.evaluate
AllMarketTypes == {"trending", "choppy", "high_vol", "unknown"}  \* MarketType
Directions == {"None", "LONG", "SHORT"}
\* btc_regime: None, the enum member BTCRegime.UNKNOWN the engine starts with,
\* or a BTCRegimeResult
BtcRegimes ==
    { [kind |-> "None", can_trade |-> FALSE, direction |-> "None", confidence |-> 0],
      [kind |-> "BTCRegime.UNKNOWN", can_trade |-> FALSE, direction |-> "None", confidence |-> 0],
      [kind |-> "BTCRegimeResult", can_trade |-> FALSE, direction |-> "SIDEWAYS", confidence |-> 0],
      [kind |-> "BTCRegimeResult", can_trade |-> TRUE, direction |-> "UP", confidence |-> 50],
      [kind |-> "BTCRegimeResult", can_trade |-> TRUE, direction |-> "DOWN", confidence |-> 50],
      [kind |-> "BTCRegimeResult", can_trade |-> TRUE, direction |-> "UP", confidence |-> 10] }
\* data: the number of 15m candles and what the structure, volume and
\* liquidity checks find in them
FilterData ==
    { d \in [n_candles : {19, 20}, structure_ok : BOOLEAN,
             volume_ok : BOOLEAN, liquidity_ok : BOOLEAN] :
        d.n_candles < MIN_FILTER_CANDLES => (~d.structure_ok /\ ~d.volume_ok) }
\* Tier-2 percentage (total_score / max_score * 100) and Tier-3 bonus total
Tier2Scores == {0, 30, 49, 50, 54, 55, 57, 59, 60, 64, 65, 69, 70, 85, 95, 100}
Tier3Bonuses == {0, 5, 24}

VARIABLES
    \* ---- BinanceWSFeed / WebSocketManager
    wsCache,        \* feed._cache: key -> deque of candles
    wsState,        \* position of the _run_forever task
    connected,      \* WebSocketManager._connected
    retry_count,    \* WebSocketManager._retry_count
    wait_time,      \* seconds of the asyncio.sleep _run_forever is in (0 when in none)
    msgs,           \* number of kline messages handled so far
    closeCalls,     \* triple -> invocations of on_candle_close (2 = more than once)
    \* ---- ArunabhaEngine
    engineState,    \* "new" | "started"
    cache,          \* CacheManager._caches: key -> deque of candles
    btc_cache,      \* engine.btc_cache: timeframe -> list of candles
    btc_data_ready, \* engine._btc_data_ready
    bg_fetcher,     \* the _background_btc_fetcher task is alive
    regime_from,    \* the BTC 15m series engine.market_type / btc_regime were
                    \* last detected from (<<>> while they are still UNKNOWN)
    daily_signals,  \* engine.daily_signals
    last_signal_time, \* engine.last_signal_time: symbol -> time (NoTime if absent)
    sent,           \* signals handed to telegram.send_signal so far
    lastClose       \* what the last _on_candle_close invocation did

feedVars == <<wsCache, wsState, connected, retry_count, wait_time, msgs, closeCalls>>
engineVars == <<engineState, cache, btc_cache, btc_data_ready, bg_fetcher, regime_from,
                daily_signals, last_signal_time, sent, lastClose>>

VARIABLES
    \* ---- RiskManager and its trackers
    active_trades,  \* RiskManager.active_trades: symbol -> trade (NoTrade if absent)
    open_stop,      \* history: the stop_loss each active trade was approved with
    daily_lock,     \* DailyLock fields
    drawdown,       \* DrawdownController fields
    loss_tracker,   \* ConsecutiveLossTracker fields
    now,            \* datetime.now(), in minutes
    today,          \* date.today(), as a day number
    pnl_since_rollover, \* history: sum of pnl_pct closed since the last date rollover
    lock_due,       \* history: a DailyLock.update since its last reset met a lock condition
    lastCall        \* the last RiskManager call and what it returned or raised
                    \* (NoCall after a call that returned None)

VARIABLES
    \* ---- FilterOrchestrator
    total_evaluations,  \* FilterOrchestrator.stats["total_evaluations"]
    filter_result       \* the last evaluate call: its arguments and what it
                        \* returned (raised = TRUE when it raised instead)

filterVars == <<total_evaluations, filter_result>>

VARIABLES
    \* ---- SignalGenerator and the Tier-1 session gate
    signal,         \* the last generate call: what it returned (NoSignal for None)
    session         \* the last _check_session call: the IST hour and what it returned

signalVars == <<signal, session>>

VARIABLES
    \* ---- TradingScheduler, the _run_scheduled task of daily_reset
    sched_running,  \* TradingScheduler.running
    sched_pc,       \* "new" | "read" (about to read the clock) | "sleep" | "stopped"
    sched_clock,    \* the local time of the task's last datetime.now(), in ticks
    sched_started_at, \* history: the local time start() was called at
    reset_runs      \* history: day -> executions of _daily_reset at its midnight

schedVars == <<sched_running, sched_pc, sched_clock, sched_started_at, reset_runs>>

VARIABLES
    \* ---- the _run_forever tasks of the WebSocketManager over start and stop
    listener_tasks, \* task id -> "none" (not created) | "loop" (at the test of
                    \* the while loop) | "listening" | "done"
    _task,          \* WebSocketManager._task: a task id, NoTask for None
    _stop_event,    \* WebSocketManager._stop_event is set
    last_op,        \* the last lifecycle call that returned
    late_callbacks  \* history: on_candle_close was invoked after a stop returned
                    \* and before the next start

taskVars == <<listener_tasks, _task, _stop_event, last_op, late_callbacks>>

riskVars == <<active_trades, open_stop, daily_lock, drawdown, loss_tracker,
              now, today, pnl_since_rollover, lock_due, lastCall>>
vars == <<feedVars, engineVars, riskVars, filterVars, signalVars, schedVars, taskVars>>

\* ------------------------------------------------------------ sequences
Last(s) == s[Len(s)]

\* collections.deque(maxlen=CACHE_SIZE).append
DequeAppend(s, x) ==
    IF Len(s) >= CACHE_SIZE THEN Tail(s) \o <<x>> ELSE Append(s, x)

\* candles[-CACHE_SIZE:]
LastN(s, n) == IF Len(s) <= n THEN s ELSE SubSeq(s, Len(s) - n + 1, Len(s))

StrictlyIncreasing(s) == \A i, j \in 1..Len(s) : i < j => s[i] < s[j]

\* Lists a REST fetch_ohlcv can return: the history up to some open time,
\* oldest first (empty when the request fails).
RestSeries == { [i \in 1..n |-> i] : n \in 0..MaxTime }

\* ---------------------------------------------------------- cache code
\* BinanceWSFeed.update_cache on one series
update_cache(series, candle) ==
    IF series # <<>> /\ candle = Last(series)
    THEN [series EXCEPT ![Len(series)] = candle]
    ELSE DequeAppend(series, candle)

\* CacheManager.update_ohlcv on one series
update_ohlcv(series, candle) ==
    IF series # <<>> /\ candle = Last(series)
    THEN [series EXCEPT ![Len(series)] = candle]
    ELSE DequeAppend(series, candle)

\* CacheManager.set_ohlcv: clear, then append candles[-CACHE_SIZE:]
set_ohlcv(candles) == LastN(candles, CACHE_SIZE)

\* =========================================================== RiskManager
NoTrade == [symbol |-> "none"]
NoTime == -1

ActiveSymbols == {s \in Symbols : active_trades[s] # NoTrade}

Abs(x) == IF x < 0 THEN -x ELSE x

\* ---- PositionSizer ----------------------------------------------------
\* _apply_atr_adjustment: the multiplier, in tenths
AtrMultX10(atr_x10) ==
    IF atr_x10 > MAX_ATR_PCT_X10 THEN 0
    ELSE IF atr_x10 > 25 THEN 5
    ELSE IF atr_x10 < 5 THEN 7
    ELSE 10

\* _apply_fear_adjustment: the multiplier, in tenths
FearMultX10(fear) ==
    IF fear < 20 THEN 5
    ELSE IF fear < 40 THEN 8
    ELSE IF fear > 75 THEN 3
    ELSE IF fear > 60 THEN 7
    ELSE 10

\* _apply_market_adjustment: the multiplier, in tenths
MarketMultX10(market) ==
    CASE market = "trending" -> 10
      [] market = "choppy" -> 8
      [] market = "high_vol" -> 5
      [] OTHER -> 9

\* PositionSizer.calculate: TRUE iff the result is {"blocked": True, ...}.
\* stop_distance_pct = |entry - stop| / entry * 100 and
\* position_usd = account * RISK% / 100 / (stop_distance_pct / 100) * multipliers;
\* the comparisons are cross-multiplied so that no division is needed.
PositionBlocked(account, entry, stop, atr_x10, fear, market) ==
    LET dist == Abs(entry - stop)
        mult == AtrMultX10(atr_x10) * FearMultX10(fear) * MarketMultX10(market)
        \* position_usd = posNum / posDen
        posNum == account * RISK_PER_TRADE_X10 * entry * mult
        posDen == dist * 100 * 10 * 1000
    IN  \/ account <= 0
        \/ entry <= 0 \/ stop <= 0
        \/ entry = stop
        \/ dist * 1000 < entry              \* stop_distance_pct < 0.1
        \/ dist * 100 > 5 * entry           \* stop_distance_pct > 5.0
        \/ posNum < MIN_POSITION_SIZE * posDen            \* position < min
        \/ account * MAX_POSITION_PCT < MIN_POSITION_SIZE * 100  \* the cap < min

\* ---- ConsecutiveLossTracker -------------------------------------------
should_stop ==
    \/ loss_tracker.cooling_until # NoTime /\ now < loss_tracker.cooling_until
    \/ loss_tracker.consecutive_losses >= MAX_CONSECUTIVE_LOSSES

LossTrackerUpdate(lt, pnl) ==
    IF pnl < 0
    THEN LET n == lt.consecutive_losses + 1
         IN [lt EXCEPT !.consecutive_losses = n,
                       !.last_loss_time = now,
                       !.cooling_until =
                           IF n >= MAX_CONSECUTIVE_LOSSES
                           THEN now + COOLDOWN_MINUTES ELSE @]
    ELSE [lt EXCEPT !.consecutive_losses = 0]

\* ---- DrawdownController -----------------------------------------------
DrawdownUpdate(dd, pnl) ==
    LET bal == dd.current_balance + pnl
        peak == IF bal > dd.peak THEN bal ELSE dd.peak
        \* current_drawdown = (peak - bal) / peak * 100 if peak > 0 else 0
        reached == IF peak > 0
                   THEN (peak - bal) * 100 * 100 >= MAX_DAILY_DRAWDOWN_X100 * peak
                   ELSE 0 >= MAX_DAILY_DRAWDOWN_X100
    IN [dd EXCEPT !.current_balance = bal,
                  !.peak = peak,
                  !.max_drawdown_reached = @ \/ reached]

\* ---- DailyLock --------------------------------------------------------
DailyLockReset(dl) ==
    [dl EXCEPT !.daily_pnl = 0, !.daily_trades = 0, !.daily_wins = 0,
               !.daily_losses = 0, !.is_locked = FALSE, !.lock_reason = "none"]

\* DailyLock._check_date
DailyLockCheckDate(dl) ==
    IF today > dl.current_date
    THEN [DailyLockReset(dl) EXCEPT !.current_date = today]
    ELSE dl

\* _check_lock_conditions with the maximum-loss test written as < instead of <=
DailyLockCheckLock_StrictLoss(dl) ==
    IF dl.daily_pnl >= DAILY_PROFIT_TARGET_X100
    THEN [dl EXCEPT !.is_locked = TRUE, !.lock_reason = "profit_target"]
    ELSE IF dl.daily_pnl < -MAX_DAILY_DRAWDOWN_X100
    THEN [dl EXCEPT !.is_locked = TRUE, !.lock_reason = "max_loss"]
    ELSE IF dl.daily_trades >= MAX_SIGNALS_DEFAULT
    THEN [dl EXCEPT !.is_locked = TRUE, !.lock_reason = "max_trades"]
    ELSE dl

\* DailyLock._check_lock_conditions
DailyLockCheckLock(dl) ==
    IF dl.daily_pnl >= DAILY_PROFIT_TARGET_X100
    THEN [dl EXCEPT !.is_locked = TRUE, !.lock_reason = "profit_target"]
    ELSE IF dl.daily_pnl <= -MAX_DAILY_DRAWDOWN_X100
    THEN [dl EXCEPT !.is_locked = TRUE, !.lock_reason = "max_loss"]
    ELSE IF dl.daily_trades >= MAX_SIGNALS_DEFAULT
    THEN [dl EXCEPT !.is_locked = TRUE, !.lock_reason = "max_trades"]
    ELSE dl

\* the lock conditions of the DailyLock, on its counters as an update leaves them
LockConditionMet(dl) ==
    \/ dl.daily_pnl >= DAILY_PROFIT_TARGET_X100
    \/ dl.daily_pnl <= -MAX_DAILY_DRAWDOWN_X100
    \/ dl.daily_trades >= MAX_SIGNALS_DEFAULT

\* DailyLock.update
DailyLockUpdate(dl, pnl) ==
    LET d1 == DailyLockCheckDate(dl)
        d2 == [d1 EXCEPT !.daily_pnl = @ + pnl,
                         !.daily_trades = @ + 1,
                         !.daily_wins = IF pnl > 0 THEN @ + 1 ELSE @,
                         !.daily_losses = IF pnl > 0 THEN @ ELSE @ + 1]
    IN DailyLockCheckLock(d2)

\* can_trade with the concurrency test written as > instead of >=
can_trade_OffByOne(symbol) ==
    IF daily_lock.is_locked
    THEN [ok |-> "raise", reason |-> "daily_lock"]
    ELSE IF drawdown.max_drawdown_reached
    THEN [ok |-> "false", reason |-> "max_drawdown"]
    ELSE IF should_stop
    THEN [ok |-> "false", reason |-> "consecutive_losses"]
    ELSE IF Cardinality(ActiveSymbols) > MAX_CONCURRENT
    THEN [ok |-> "false", reason |-> "max_concurrent"]
    ELSE IF active_trades[symbol] # NoTrade
    THEN [ok |-> "false", reason |-> "active_trade_exists"]
    ELSE [ok |-> "true", reason |-> "OK"]

\* ---- RiskManager.can_trade --------------------------------------------
\* ok is "true" / "false" for the returned flag and "raise" when the call
\* raises: the daily-lock branch formats self.daily_lock.reason, an attribute
\* DailyLock does not have (it has lock_reason), so it raises AttributeError.
can_trade(symbol) ==
    IF daily_lock.is_locked
    THEN [ok |-> "raise", reason |-> "daily_lock"]
    ELSE IF drawdown.max_drawdown_reached
    THEN [ok |-> "false", reason |-> "max_drawdown"]
    ELSE IF should_stop
    THEN [ok |-> "false", reason |-> "consecutive_losses"]
    ELSE IF Cardinality(ActiveSymbols) >= MAX_CONCURRENT
    THEN [ok |-> "false", reason |-> "max_concurrent"]
    ELSE IF active_trades[symbol] # NoTrade
    THEN [ok |-> "false", reason |-> "active_trade_exists"]
    ELSE [ok |-> "true", reason |-> "OK"]

\* ---- RiskManager.update_trade helpers ----------------------------------
\* CurrentRAtLeast with the guard written as r_distance != 0: the quotient
\* profit / r_distance is then also taken for a negative r_distance
CurrentRAtLeast_NonZeroGuard(trade, price, thr_x10) ==
    LET r_distance == IF trade.direction = "LONG"
                      THEN trade.entry - trade.stop_loss
                      ELSE trade.stop_loss - trade.entry
        profit == IF trade.direction = "LONG"
                  THEN price - trade.entry
                  ELSE trade.entry - price
    IN IF r_distance > 0 THEN profit * 10 >= thr_x10 * r_distance
       ELSE IF r_distance < 0 THEN profit * 10 <= thr_x10 * r_distance
       ELSE 0 >= thr_x10

\* current_r >= thr/10, with current_r as update_trade computes it
CurrentRAtLeast(trade, price, thr_x10) ==
    LET r_distance == IF trade.direction = "LONG"
                      THEN trade.entry - trade.stop_loss
                      ELSE trade.stop_loss - trade.entry
        profit == IF trade.direction = "LONG"
                  THEN price - trade.entry
                  ELSE trade.entry - price
    IN IF r_distance > 0
       THEN profit * 10 >= thr_x10 * r_distance
       ELSE 0 >= thr_x10

\* pnl_pct with the LONG formula used for both directions
PnlPctX100_LongOnly(trade, exit_price) ==
    ((exit_price - trade.entry) * 10000) \div trade.entry

\* close_trade: pnl_pct in hundredths of a percent
PnlPctX100(trade, exit_price) ==
    IF trade.direction = "LONG"
    THEN ((exit_price - trade.entry) * 10000) \div trade.entry
    ELSE ((trade.entry - exit_price) * 10000) \div trade.entry

NoCall ==
    [op |-> "none", symbol |-> "none", ok |-> "none", reason |-> "none",
     blocked |-> FALSE, pnl |-> 0, timed_out |-> {}]

RiskInit ==
    /\ active_trades = [s \in Symbols |-> NoTrade]
    /\ open_stop = [s \in Symbols |-> 0]
    /\ daily_lock = [current_date |-> 0, daily_pnl |-> 0, daily_trades |-> 0,
                     daily_wins |-> 0, daily_losses |-> 0, is_locked |-> FALSE,
                     lock_reason |-> "none"]
    /\ drawdown = [peak |-> 0, current_balance |-> 0, max_drawdown_reached |-> FALSE]
    /\ loss_tracker = [consecutive_losses |-> 0, last_loss_time |-> NoTime,
                       cooling_until |-> NoTime]
    /\ now = 0
    /\ today = 0
    /\ pnl_since_rollover = 0
    /\ lock_due = FALSE
    /\ lastCall = NoCall

\* RiskManager.approve_trade
ApproveTrade(symbol, direction, entry, stop, target, account, atr_x10, fear, market) ==
    /\ UNCHANGED <<feedVars, engineVars, filterVars, signalVars, schedVars, taskVars>>
    /\ LET r == can_trade(symbol)
           blocked == PositionBlocked(account, entry, stop, atr_x10, fear, market)
           trade == [symbol |-> symbol, direction |-> direction, entry |-> entry,
                     stop_loss |-> stop, take_profit |-> target, timestamp |-> now,
                     max_holding_minutes |-> IF market = "choppy" THEN 60 ELSE 90,
                     partial_exit_done |-> FALSE, be_triggered |-> FALSE]
       IN IF r.ok # "true"
          THEN /\ lastCall' = IF r.ok = "raise"
                            THEN [NoCall EXCEPT !.op = "approve", !.ok = r.ok,
                                                !.reason = r.reason]
                            ELSE NoCall
               /\ UNCHANGED <<active_trades, open_stop, daily_lock, drawdown,
                              loss_tracker, now, today, pnl_since_rollover, lock_due>>
          ELSE IF blocked
          THEN /\ lastCall' = NoCall
               /\ UNCHANGED <<active_trades, open_stop, daily_lock, drawdown,
                              loss_tracker, now, today, pnl_since_rollover, lock_due>>
          ELSE /\ active_trades' = [active_trades EXCEPT ![symbol] = trade]
               /\ open_stop' = [open_stop EXCEPT ![symbol] = stop]
               /\ lastCall' = [NoCall EXCEPT !.op = "approve", !.symbol = symbol,
                                             !.ok = "true", !.blocked = blocked,
                                             !.reason = "OK"]
               /\ UNCHANGED <<daily_lock, drawdown, loss_tracker, now, today,
                              pnl_since_rollover, lock_due>>

\* RiskManager.update_trade on an active trade: the trade as the call leaves
\* it and the returned result["action"], together with what the call did
\* (partial_now / be_now: the flag was set by this call) and at_one_r: the
\* profit at this price is at least the risk the trade was opened with.
update_trade(symbol, price) ==
    LET trade == active_trades[symbol]
        long == trade.direction = "LONG"
        partial == CurrentRAtLeast(trade, price, PARTIAL_EXIT_AT_R_X10)
                   /\ ~trade.partial_exit_done
        be == CurrentRAtLeast(trade, price, BREAK_EVEN_AT_R_X10)
              /\ ~trade.be_triggered
        new_stop == IF be THEN trade.entry ELSE trade.stop_loss
        sl_hit == IF long THEN price <= new_stop ELSE price >= new_stop
        tp_hit == IF long THEN price >= trade.take_profit
                          ELSE price <= trade.take_profit
        \* result["action"]: each later check overwrites the earlier ones
        a1 == IF partial THEN "PARTIAL_EXIT" ELSE "none"
        a2 == IF be THEN "BREAK_EVEN" ELSE a1
        a3 == IF sl_hit THEN "SL_HIT" ELSE a2
        a4 == IF tp_hit THEN "TP_HIT" ELSE a3
        init_risk == IF long THEN trade.entry - open_stop[symbol]
                             ELSE open_stop[symbol] - trade.entry
        profit == IF long THEN price - trade.entry ELSE trade.entry - price
    IN [trade |-> [trade EXCEPT !.partial_exit_done = @ \/ partial,
                                !.be_triggered = @ \/ be,
                                !.stop_loss = new_stop],
        action |-> a4,
        partial_now |-> partial,
        be_now |-> be,
        at_one_r |-> init_risk > 0 /\ profit >= init_risk]

\* a call of RiskManager.update_trade(symbol, current_price)
UpdateTrade(symbol, price) ==
    /\ UNCHANGED <<feedVars, engineVars, filterVars, signalVars, schedVars, taskVars>>
    /\ IF active_trades[symbol] = NoTrade
       THEN /\ lastCall' = NoCall
            /\ UNCHANGED <<active_trades, open_stop, daily_lock, drawdown,
                           loss_tracker, now, today, pnl_since_rollover, lock_due>>
       ELSE /\ active_trades' = [active_trades EXCEPT ![symbol] =
                                    update_trade(symbol, price).trade]
            /\ lastCall' = [NoCall EXCEPT !.op = "update", !.symbol = symbol,
                                          !.ok = "true"]
            /\ UNCHANGED <<open_stop, daily_lock, drawdown, loss_tracker, now, today,
                           pnl_since_rollover, lock_due>>

\* RiskManager.close_trade
CloseTrade(symbol, exit_price) ==
    /\ UNCHANGED <<feedVars, engineVars, filterVars, signalVars, schedVars, taskVars>>
    /\ IF active_trades[symbol] = NoTrade
       THEN /\ lastCall' = NoCall
            /\ UNCHANGED <<active_trades, open_stop, daily_lock, drawdown,
                           loss_tracker, now, today, pnl_since_rollover, lock_due>>
       ELSE
       LET trade == active_trades[symbol]
           pnl == PnlPctX100(trade, exit_price)
       IN /\ active_trades' = [active_trades EXCEPT ![symbol] = NoTrade]
          /\ open_stop' = [open_stop EXCEPT ![symbol] = 0]
          /\ drawdown' = DrawdownUpdate(drawdown, pnl)
          /\ loss_tracker' = LossTrackerUpdate(loss_tracker, pnl)
          /\ daily_lock' = DailyLockUpdate(daily_lock, pnl)
          /\ pnl_since_rollover' = pnl_since_rollover + pnl
          /\ lock_due' = ((today <= daily_lock.current_date /\ lock_due)
                           \/ LockConditionMet(daily_lock'))
          /\ lastCall' = [NoCall EXCEPT !.op = "close", !.symbol = symbol,
                                        !.ok = "true",
                                        !.pnl = pnl]
          /\ UNCHANGED <<now, today>>

\* RiskManager.reset_daily: its first statement calls self.drawdown.reset(),
\* a method DrawdownController does not define (it has reset_daily and
\* reset_all), so the call raises AttributeError before anything is reset.
ResetDaily ==
    /\ UNCHANGED <<feedVars, engineVars, filterVars, signalVars, schedVars, taskVars>>
    /\ lastCall' = [NoCall EXCEPT !.op = "reset_daily", !.ok = "raise",
                                  !.reason = "drawdown_reset"]
    /\ UNCHANGED <<active_trades, open_stop, daily_lock, drawdown,
                   loss_tracker, now, today, pnl_since_rollover, lock_due>>

\* RiskManager.check_timeouts: the symbols it returns; no trade is closed
\* and no field is written
CheckTimeouts ==
    /\ UNCHANGED <<feedVars, engineVars, filterVars, signalVars, schedVars, taskVars>>
    /\ lastCall' = [NoCall EXCEPT
                      !.op = "check_timeouts", !.ok = "true",
                      !.timed_out = {s \in ActiveSymbols :
                                       now - active_trades[s].timestamp >
                                       active_trades[s].max_holding_minutes}]
    /\ UNCHANGED <<active_trades, open_stop, daily_lock, drawdown,
                   loss_tracker, now, today, pnl_since_rollover, lock_due>>

\* the wall clock advances (up to limit minutes)
Tick(limit) ==
    /\ UNCHANGED <<feedVars, engineVars, filterVars, signalVars, schedVars, taskVars>>
    /\ now + TickMinutes <= limit
    /\ now' = now + TickMinutes
    /\ lastCall' = NoCall
    /\ UNCHANGED <<active_trades, open_stop, daily_lock, drawdown,
                   loss_tracker, today, pnl_since_rollover, lock_due>>

\* local midnight passes: date.today() changes
DateRollover ==
    /\ UNCHANGED <<feedVars, engineVars, filterVars, signalVars, schedVars, taskVars>>
    /\ today < MaxDay
    /\ today' = today + 1
    /\ pnl_since_rollover' = 0
    /\ UNCHANGED lock_due
    /\ lastCall' = NoCall
    /\ UNCHANGED <<active_trades, open_stop, daily_lock, drawdown,
                   loss_tracker, now>>

RiskNext ==
    \/ \E s \in Symbols, sig \in Signals, acc \in Accounts, atr \in AtrPctsX10,
          f \in FearIndexes, m \in MarketTypes :
          ApproveTrade(s, sig[1], sig[2], sig[3], sig[4], acc, atr, f, m)
    \/ \E s \in Symbols, p \in Prices : UpdateTrade(s, p)
    \/ \E s \in Symbols, p \in ExitPrices : CloseTrade(s, p)
    \/ ResetDaily
    \/ Tick(MaxNow)
    \/ DateRollover

\* approvals in either market type, check_timeouts and a clock that runs
\* past the holding limits
TimeoutNext ==
    \/ \E s \in Symbols, sig \in Signals, acc \in Accounts, atr \in AtrPctsX10,
          f \in FearIndexes, m \in HoldingMarketTypes :
          ApproveTrade(s, sig[1], sig[2], sig[3], sig[4], acc, atr, f, m)
    \/ CheckTimeouts
    \/ Tick(MaxHoldNow)

FeedInit ==
    /\ wsCache = [k \in Keys |-> <<>>]
    /\ wsState = "idle"
    /\ connected = FALSE
    /\ retry_count = 0
    /\ wait_time = 0
    /\ msgs = 0
    /\ closeCalls = [tr \in Triples |-> 0]

EngineInit ==
    /\ engineState = "new"
    /\ cache = [k \in Keys |-> <<>>]
    /\ btc_cache = [tf \in TIMEFRAMES |-> <<>>]
    /\ btc_data_ready = FALSE
    /\ bg_fetcher = FALSE
    /\ regime_from = <<>>
    /\ daily_signals = 0
    /\ last_signal_time = [s \in Symbols |-> NoTime]
    /\ sent = 0
    /\ lastClose = [symbol |-> "none", tf |-> "none", stage |-> "none",
                    ready_before |-> FALSE, ready_at_gate |-> FALSE, n_candles |-> 0]

Min(a, b) == IF a < b THEN a ELSE b

\* ================================================== FilterOrchestrator
\* Scores are whole percents: the code compares its float percentage only
\* with ">=" against whole numbers.

\* SignalGrade.from_score
from_score(score) ==
    IF score >= 90 THEN "A+"
    ELSE IF score >= 80 THEN "A"
    ELSE IF score >= 70 THEN "B+"
    ELSE IF score >= 60 THEN "B"
    ELSE IF score >= 50 THEN "C"
    ELSE "D"

\* SignalGrade.can_trade
grade_can_trade(grade) == grade \in {"A+", "A", "B+", "B"}

\* _get_threshold without the high_vol entry of its table
_get_threshold_NoHighVol(market_type) ==
    CASE market_type = "trending" -> 60
      [] market_type = "choppy" -> 55
      [] OTHER -> 60

\* Tier2Filters._get_threshold
_get_threshold(market_type) ==
    CASE market_type = "trending" -> 60
      [] market_type = "choppy" -> 55
      [] market_type = "high_vol" -> 65
      [] market_type = "unknown" -> 60
      [] OTHER -> 60

\* Tier1Filters._check_btc_regime.  A BTCRegime enum member is a non-empty
\* str, so "not btc_regime" is False for it; it has can_trade but no
\* reason, direction or confidence attribute.
_check_btc_regime(btc_regime, direction) ==
    IF btc_regime.kind = "None"
    THEN [passed |-> FALSE, raised |-> FALSE]
    ELSE IF ~btc_regime.can_trade
    THEN [passed |-> FALSE, raised |-> btc_regime.kind # "BTCRegimeResult"]
    ELSE IF direction = "LONG" /\ btc_regime.direction = "DOWN"
    THEN [passed |-> FALSE, raised |-> FALSE]
    ELSE IF direction = "SHORT" /\ btc_regime.direction = "UP"
    THEN [passed |-> FALSE, raised |-> FALSE]
    ELSE IF btc_regime.confidence < 20
    THEN [passed |-> FALSE, raised |-> FALSE]
    ELSE [passed |-> TRUE, raised |-> FALSE]

\* Tier1Filters.evaluate_all: the five mandatory gates
tier1_evaluate_all(btc_regime, direction, data, session_ok) ==
    [ btc_regime |-> _check_btc_regime(btc_regime, direction).passed,
      structure |-> data.n_candles >= MIN_FILTER_CANDLES /\ data.structure_ok,
      volume |-> data.n_candles >= MIN_FILTER_CANDLES /\ data.volume_ok,
      liquidity |-> data.liquidity_ok,
      session |-> session_ok ]

Tier1Gates == {"btc_regime", "structure", "volume", "liquidity", "session"}
NoGates == [g \in Tier1Gates |-> FALSE]

\* FilterOrchestrator.evaluate: the FilterResult, or raised = TRUE
evaluate(market_type, btc_regime, direction, data, session_ok, tier2_score, tier3_bonus) ==
    LET tier1 == tier1_evaluate_all(btc_regime, direction, data, session_ok)
        tier1_passed == \A g \in Tier1Gates : tier1[g]
        tier2_passed == tier2_score >= _get_threshold(market_type)
        final_score == Min(100, tier2_score + tier3_bonus)
        grade == from_score(final_score)
    IN IF _check_btc_regime(btc_regime, direction).raised
       THEN [raised |-> TRUE, passed |-> FALSE, tier1 |-> NoGates,
             score |-> 0, grade |-> "none"]
       ELSE IF ~tier1_passed
       THEN [raised |-> FALSE, passed |-> FALSE, tier1 |-> tier1,
             score |-> 0, grade |-> "D"]
       ELSE IF ~tier2_passed
       THEN [raised |-> FALSE, passed |-> FALSE, tier1 |-> tier1,
             score |-> tier2_score, grade |-> "C"]
       ELSE [raised |-> FALSE, passed |-> grade_can_trade(grade), tier1 |-> tier1,
             score |-> final_score, grade |-> grade]

NoRegime == [kind |-> "none", can_trade |-> FALSE, direction |-> "None", confidence |-> 0]

FilterInit ==
    /\ total_evaluations = 0
    /\ filter_result = [op |-> "none", market_type |-> "none", btc_regime |-> NoRegime,
                        n_candles |-> 0, raised |-> FALSE, passed |-> FALSE,
                        tier1 |-> NoGates, score |-> 0, grade |-> "none"]

\* one call of FilterOrchestrator.evaluate
Evaluate(market_type, btc_regime, direction, data, session_ok, tier2_score, tier3_bonus) ==
    LET r == evaluate(market_type, btc_regime, direction, data, session_ok,
                      tier2_score, tier3_bonus)
    IN /\ total_evaluations < MaxEvaluations
       /\ UNCHANGED <<feedVars, engineVars, riskVars, signalVars, schedVars, taskVars>>
       /\ total_evaluations' = total_evaluations + 1
       /\ filter_result' = [op |-> "evaluate", market_type |-> market_type,
                            btc_regime |-> btc_regime, n_candles |-> data.n_candles,
                            raised |-> r.raised, passed |-> r.passed,
                            tier1 |-> r.tier1, score |-> r.score, grade |-> r.grade]

\* The argument lists of evaluate.  Tier 2 is computed only after Tier 1 has
\* passed and Tier 3 only after Tier 2 has, so a tier that is not reached
\* contributes no value of its own (0 stands for it).
FilterInputs ==
    { i \in [market_type : AllMarketTypes, btc_regime : BtcRegimes,
             direction : Directions, data : FilterData, session_ok : BOOLEAN,
             tier2_score : Tier2Scores, tier3_bonus : Tier3Bonuses] :
        LET tier1 == tier1_evaluate_all(i.btc_regime, i.direction, i.data, i.session_ok)
            tier1_passed == \A g \in Tier1Gates : tier1[g]
        IN /\ ~tier1_passed => (i.tier2_score = 0 /\ i.tier3_bonus = 0)
           /\ i.tier2_score < _get_threshold(i.market_type) => i.tier3_bonus = 0 }

FilterNext ==
    \E i \in FilterInputs :
       Evaluate(i.market_type, i.btc_regime, i.direction, i.data, i.session_ok,
                i.tier2_score, i.tier3_bonus)

\* ====================================================== SignalGenerator
\* Prices and the ATR are integers in units of 10^-5, so that round(x, 2)
\* keeps the multiples of RoundUnit.
RoundUnit == 1000

\* round(x, 2); the float next to a decimal tie lies on either side of it, so
\* the direction of a tie is an input
round2(x, tie_up) ==
    LET q == x \div RoundUnit
        r == x % RoundUnit
    IN IF 2 * r > RoundUnit \/ (2 * r = RoundUnit /\ tie_up)
       THEN (q + 1) * RoundUnit ELSE q * RoundUnit

\* config.MARKET_CONFIGS[...]["sl_mult"] and ["tp_mult"], times 10; a market
\* type without an entry takes the "trending" one
sl_mult_X10(market_type) ==
    CASE market_type = "choppy" -> 12
      [] market_type = "high_vol" -> 10
      [] OTHER -> 15
tp_mult_X10(market_type) ==
    CASE market_type = "choppy" -> 18
      [] market_type = "high_vol" -> 25
      [] OTHER -> 30

MIN_RR_RATIO_X100 == 150
MAX_RR_RATIO_X100 == 1000

NoSignal == [direction |-> "None", entry |-> 0, stop_loss |-> 0, take_profit |-> 0,
             rr_ratio |-> 0]

\* SignalGenerator._calculate_risk_params; rr_ratio in hundredths
_calculate_risk_params(direction, current_price, atr, market_type, tie_sl, tie_tp) ==
    IF atr <= 0 THEN NoSignal
    ELSE LET sl_dist == (atr * sl_mult_X10(market_type)) \div 10
             tp_dist == (atr * tp_mult_X10(market_type)) \div 10
             stop_loss == IF direction = "LONG" THEN current_price - sl_dist
                          ELSE current_price + sl_dist
             take_profit == IF direction = "LONG" THEN current_price + tp_dist
                            ELSE current_price - tp_dist
             num == Abs(take_profit - current_price)
             den == Abs(current_price - stop_loss)
         IN [direction |-> direction, entry |-> current_price,
             stop_loss |-> round2(stop_loss, tie_sl),
             take_profit |-> round2(take_profit, tie_tp),
             rr_ratio |-> (200 * num + den) \div (2 * den)]

\* SignalValidator._check_sl_different / _check_tp_different:
\* abs(entry - level) > 0.01 * entry
_check_different(entry, level) ==
    IF entry = 0 \/ level = 0 THEN FALSE ELSE 100 * Abs(entry - level) > entry

\* SignalValidator.validate; ranges_ok: score and confidence lie in 0..100
validate(s, ranges_ok) ==
    /\ s.entry > 0
    /\ _check_different(s.entry, s.stop_loss)
    /\ _check_different(s.entry, s.take_profit)
    /\ MIN_RR_RATIO_X100 <= s.rr_ratio /\ s.rr_ratio <= MAX_RR_RATIO_X100
    /\ ranges_ok
    /\ s.direction \in {"LONG", "SHORT"}

\* SignalGenerator.generate: NoSignal stands for None
generate(direction, current_price, atr, market_type, tie_sl, tie_tp, ranges_ok) ==
    LET s == _calculate_risk_params(direction, current_price, atr, market_type,
                                    tie_sl, tie_tp)
    IN IF s = NoSignal THEN NoSignal
       ELSE IF validate(s, ranges_ok) THEN s ELSE NoSignal

\* closes of the traded pairs (DOGE/USDT near 0.12, RENDER/USDT near 6.5,
\* SOL/USDT near 150) and a price below one cent
SignalPrices == {600, 12340, 12650, 12680, 654321, 15000000}
\* ATR values, each a multiple of 10 so that the multiplied distances are whole
SignalAtrs == {0, 10, 50, 100, 20000, 300000}
TradeDirections == {"LONG", "SHORT"}

\* ------------------------------------------------- Tier-1 session gate
AVOID_TIMES == << [start |-> 10, end |-> 11], [start |-> 23, end |-> 1] >>
\* datetime.now(Asia/Kolkata).hour
Hours == 0 .. 23

\* Tier1Filters._check_session
_check_session(hour) ==
    IF \E i \in DOMAIN AVOID_TIMES :
          AVOID_TIMES[i].start <= hour /\ hour < AVOID_TIMES[i].end
    THEN FALSE
    ELSE IF 7 <= hour /\ hour < 11 THEN TRUE
    ELSE IF 13 <= hour /\ hour < 17 THEN TRUE
    ELSE IF 17 <= hour /\ hour < 22 THEN TRUE
    ELSE IF 22 <= hour /\ hour < 24 THEN TRUE
    ELSE FALSE

SignalInit ==
    /\ signal = NoSignal
    /\ session = [checked |-> FALSE, hour |-> 0, passed |-> FALSE]

\* one call of SignalGenerator.generate
Generate(direction, current_price, atr, market_type, tie_sl, tie_tp, ranges_ok) ==
    /\ signal' = generate(direction, current_price, atr, market_type,
                          tie_sl, tie_tp, ranges_ok)
    /\ UNCHANGED <<feedVars, engineVars, riskVars, filterVars, session, schedVars, taskVars>>

\* one call of Tier1Filters._check_session
CheckSession(hour) ==
    /\ session' = [checked |-> TRUE, hour |-> hour, passed |-> _check_session(hour)]
    /\ UNCHANGED <<feedVars, engineVars, riskVars, filterVars, signal, schedVars, taskVars>>

\* The argument lists of generate.  The direction of a tie is an input only
\* where the level to round lies on a tie.
SignalInputs ==
    { i \in [direction : TradeDirections, current_price : SignalPrices,
             atr : SignalAtrs, market_type : AllMarketTypes,
             tie_sl : BOOLEAN, tie_tp : BOOLEAN, ranges_ok : BOOLEAN] :
        LET up == _calculate_risk_params(i.direction, i.current_price, i.atr,
                                         i.market_type, TRUE, TRUE)
            down == _calculate_risk_params(i.direction, i.current_price, i.atr,
                                           i.market_type, FALSE, FALSE)
        IN /\ up.stop_loss = down.stop_loss => ~i.tie_sl
           /\ up.take_profit = down.take_profit => ~i.tie_tp }

SignalNext ==
    \/ \E i \in SignalInputs :
          Generate(i.direction, i.current_price, i.atr, i.market_type,
                   i.tie_sl, i.tie_tp, i.ranges_ok)
    \/ \E h \in Hours : CheckSession(h)

\* ===================================================== TradingScheduler
\* Local time in ticks of 30 seconds; a day is shortened to DayTicks ticks and
\* local midnight of day d is tick d * DayTicks.
DayTicks == 6
MaxSchedDay == 2
SLEEP_TICKS == 2
SchedDays == 0 .. MaxSchedDay
\* asyncio.sleep returns no earlier than asked: the extra ticks a wake-up takes
Jitters == {0, 1}

\* names bound in scheduler.py: what it imports and what it defines
SchedulerNames == {"asyncio", "logging", "datetime", "time", "pytz", "config",
                   "SessionType", "logger", "TradingScheduler"}

SchedInit ==
    /\ sched_running = FALSE
    /\ sched_pc = "new"
    /\ sched_clock = 0
    /\ sched_started_at = 0
    /\ reset_runs = [d \in SchedDays |-> 0]

\* TradingScheduler.start, called at local time t of day 0
SchedulerStart(t) ==
    /\ sched_pc = "new"
    /\ sched_running' = TRUE
    /\ sched_pc' = "read"
    /\ sched_clock' = t
    /\ sched_started_at' = t
    /\ UNCHANGED <<feedVars, engineVars, riskVars, filterVars, signalVars, taskVars, reset_runs>>

\* one pass of the loop of _run_scheduled for the "00:00" task, up to the
\* sleep it ends in: the sleep after the callback, or the one of the handler
\* of `except Exception` where a name is not bound
_run_scheduled ==
    LET now_ == sched_clock
        day == now_ \div DayTicks
        target == day * DayTicks                   \* today at 00:00
        passed == now_ > target
        executes == IF passed THEN "timedelta" \in SchedulerNames ELSE TRUE
    IN /\ sched_running
       /\ sched_pc = "read"
       /\ sched_pc' = "sleep"
       \* the callback runs at the target of this pass: today's midnight, or
       \* tomorrow's after the wait when today's has passed
       /\ IF ~executes THEN UNCHANGED <<reset_runs, sched_clock>>
          ELSE IF passed
          THEN /\ day + 1 \in SchedDays
               /\ sched_clock' = target + DayTicks
               /\ reset_runs' = [reset_runs EXCEPT ![day + 1] = Min(@ + 1, 2)]
          ELSE /\ reset_runs' = [reset_runs EXCEPT ![day] = Min(@ + 1, 2)]
               /\ UNCHANGED sched_clock
       /\ UNCHANGED <<feedVars, engineVars, riskVars, filterVars, signalVars, taskVars,
                      sched_running, sched_started_at>>

\* the sleep of 60 seconds is over
SchedulerWakeUp(jitter) ==
    /\ sched_running
    /\ sched_pc = "sleep"
    /\ (sched_clock + SLEEP_TICKS + jitter) \div DayTicks \in SchedDays
    /\ sched_pc' = "read"
    /\ sched_clock' = sched_clock + SLEEP_TICKS + jitter
    /\ UNCHANGED <<feedVars, engineVars, riskVars, filterVars, signalVars, taskVars,
                   sched_running, sched_started_at, reset_runs>>

\* TradingScheduler.stop
SchedulerStop ==
    /\ sched_running
    /\ sched_running' = FALSE
    /\ sched_pc' = "stopped"
    /\ UNCHANGED <<feedVars, engineVars, riskVars, filterVars, signalVars, taskVars,
                   sched_clock, sched_started_at, reset_runs>>

SchedNext ==
    \/ \E t \in 0 .. (DayTicks - 1) : SchedulerStart(t)
    \/ _run_scheduled
    \/ \E j \in Jitters : SchedulerWakeUp(j)
    \/ SchedulerStop

\* ===================================== WebSocketManager over start and stop
MaxTasks == 4
TaskIds == 1 .. MaxTasks
NoTask == 0

LiveTasks == {i \in TaskIds : listener_tasks[i] \in {"loop", "listening"}}

TaskInit ==
    /\ listener_tasks = [i \in TaskIds |-> "none"]
    /\ _task = NoTask
    /\ _stop_event = FALSE
    /\ last_op = "none"
    /\ late_callbacks = FALSE

\* WebSocketManager.start: clears the event and binds _task to a new task;
\* the task _task was bound to is neither cancelled nor awaited
ws_manager_start(tasks) ==
    LET new == CHOOSE i \in TaskIds : tasks[i] = "none" /\
                                      \A j \in TaskIds : tasks[j] = "none" => i <= j
    IN [tasks |-> [tasks EXCEPT ![new] = "loop"], task |-> new]

\* WebSocketManager.stop: sets the event, cancels the task _task is bound to
\* and awaits it
ws_manager_stop(tasks) ==
    IF _task # NoTask /\ tasks[_task] \in {"loop", "listening"}
    THEN [tasks EXCEPT ![_task] = "done"]
    ELSE tasks

CanCreateTask(tasks) == \E i \in TaskIds : tasks[i] = "none"

\* ArunabhaEngine.start, called for the first time
Startup ==
    /\ last_op = "none"
    /\ CanCreateTask(listener_tasks)
    /\ listener_tasks' = ws_manager_start(listener_tasks).tasks
    /\ _task' = ws_manager_start(listener_tasks).task
    /\ _stop_event' = FALSE
    /\ last_op' = "start"
    /\ UNCHANGED <<feedVars, engineVars, riskVars, filterVars, signalVars, schedVars,
                   late_callbacks>>

\* Orchestrator.resume: engine.start() with no stop before it
Resume ==
    /\ last_op # "none"
    /\ CanCreateTask(listener_tasks)
    /\ listener_tasks' = ws_manager_start(listener_tasks).tasks
    /\ _task' = ws_manager_start(listener_tasks).task
    /\ _stop_event' = FALSE
    /\ last_op' = "resume"
    /\ UNCHANGED <<feedVars, engineVars, riskVars, filterVars, signalVars, schedVars,
                   late_callbacks>>

\* Orchestrator.emergency_stop: engine.stop()
EmergencyStop ==
    /\ last_op # "none"
    /\ listener_tasks' = ws_manager_stop(listener_tasks)
    /\ _stop_event' = TRUE
    /\ last_op' = "stop"
    /\ UNCHANGED <<feedVars, engineVars, riskVars, filterVars, signalVars, schedVars,
                   _task, late_callbacks>>

\* Orchestrator._restart_with_delay: engine.stop() and then engine.start()
RestartWithDelay ==
    LET stopped == ws_manager_stop(listener_tasks)
    IN /\ last_op # "none"
       /\ CanCreateTask(stopped)
       /\ listener_tasks' = ws_manager_start(stopped).tasks
       /\ _task' = ws_manager_start(stopped).task
       /\ _stop_event' = FALSE
       /\ last_op' = "restart"
       /\ UNCHANGED <<feedVars, engineVars, riskVars, filterVars, signalVars,
                      schedVars, late_callbacks>>

\* _run_forever at `while not self._stop_event.is_set()`
TaskLoopTest(i) ==
    /\ listener_tasks[i] = "loop"
    /\ listener_tasks' = [listener_tasks EXCEPT
                             ![i] = IF _stop_event THEN "done" ELSE "listening"]
    /\ UNCHANGED <<feedVars, engineVars, riskVars, filterVars, signalVars, schedVars,
                   _task, _stop_event, last_op, late_callbacks>>

\* _connect_and_listen of task i hands a closed candle to on_candle_close
TaskDelivers(i) ==
    /\ listener_tasks[i] = "listening"
    /\ late_callbacks' = (late_callbacks \/ last_op = "stop")
    /\ UNCHANGED <<feedVars, engineVars, riskVars, filterVars, signalVars, schedVars,
                   listener_tasks, _task, _stop_event, last_op>>

\* _connect_and_listen of task i returns or raises and the wait is over
TaskConnectionEnds(i) ==
    /\ listener_tasks[i] = "listening"
    /\ listener_tasks' = [listener_tasks EXCEPT ![i] = "loop"]
    /\ UNCHANGED <<feedVars, engineVars, riskVars, filterVars, signalVars, schedVars,
                   _task, _stop_event, last_op, late_callbacks>>

TaskNext ==
    \/ Startup
    \/ Resume
    \/ EmergencyStop
    \/ RestartWithDelay
    \/ \E i \in TaskIds : TaskLoopTest(i)
    \/ \E i \in TaskIds : TaskDelivers(i)
    \/ \E i \in TaskIds : TaskConnectionEnds(i)

Init == FeedInit /\ EngineInit /\ RiskInit /\ FilterInit /\ SignalInit /\ SchedInit /\ TaskInit

\* ====================================================== ArunabhaEngine
\* stages of _on_candle_close at which filter evaluation has taken place
EvaluatedStages == {"filters_failed", "no_signal", "process_error", "signal_sent"}

\* the methods RiskManager defines
RiskManagerMethods == {"can_trade", "approve_trade", "update_trade", "close_trade",
                       "check_timeouts", "reset_daily", "get_status"}

\* ArunabhaEngine._process_signal(signal): its first statement calls
\* self.risk_manager.calculate_position; the state update and
\* telegram.send_signal come after that call has returned.  Without the
\* method the call raises AttributeError, which _on_candle_close catches.
_process_signal ==
    IF "calculate_position" \in RiskManagerMethods THEN "signal_sent"
    ELSE "process_error"

\* _can_process_signal: the cooldown test on last_signal_time
InCooldown(symbol) ==
    /\ last_signal_time[symbol] # NoTime
    /\ now - last_signal_time[symbol] < COOLDOWN_MINUTES

\* CloseStage without the btc_data_ready tests
CloseStage_NoReadyGate(symbol, ready, btc_15m, outcome) ==
    IF daily_signals >= MAX_SIGNALS_DEFAULT THEN "daily_limit"
    ELSE IF InCooldown(symbol) THEN "cooldown"
    ELSE IF can_trade(symbol).ok = "raise" THEN "error"
    ELSE IF can_trade(symbol).ok = "false" THEN "risk_blocked"
    ELSE IF btc_15m = <<>> \/ Len(btc_15m) < REGIME_MIN_CANDLES THEN "no_data"
    ELSE IF outcome = "signal" THEN _process_signal
    ELSE outcome

\* ArunabhaEngine._on_candle_close(symbol, tf, candles): the stage at which
\* the handler stops, given the latch and caches as the handler has just
\* left them.  outcome is the result of the filter / generator / notifier
\* steps when they are reached.
CloseStage(symbol, ready, btc_15m, outcome) ==
    IF ~ready THEN "btc_not_ready"       \* engine.py:245 and, again, :265
    \* _can_process_signal
    ELSE IF daily_signals >= MAX_SIGNALS_DEFAULT THEN "daily_limit"
    ELSE IF InCooldown(symbol) THEN "cooldown"
    ELSE IF can_trade(symbol).ok = "raise" THEN "error"  \* caught at :258
    ELSE IF can_trade(symbol).ok = "false" THEN "risk_blocked"
    \* _get_all_data
    ELSE IF btc_15m = <<>> \/ Len(btc_15m) < REGIME_MIN_CANDLES THEN "no_data"
    \* _generate_signal
    ELSE IF outcome = "signal" THEN _process_signal
    ELSE outcome

\* what _get_all_data, the filters and the signal generator come to in
\* _generate_signal: no data, filters not passed, no signal generated, or
\* a valid signal handed to _process_signal
Outcomes == {"no_data", "filters_failed", "no_signal", "signal"}

\* ArunabhaEngine._update_regime: the series the regime is detected from
\* after the call, given the latch and the BTC 15m series it finds
_update_regime(ready, btc_15m) ==
    IF ~ready THEN regime_from
    ELSE IF btc_15m = <<>> \/ Len(btc_15m) < REGIME_MIN_CANDLES THEN regime_from
    ELSE btc_15m

OnCandleClose(symbol, tf, candles, outcome) ==
    IF tf # PRIMARY_TF
    THEN /\ lastClose' = [symbol |-> symbol, tf |-> tf, stage |-> "not_primary",
                          ready_before |-> btc_data_ready,
                          ready_at_gate |-> btc_data_ready,
                          n_candles |-> Len(candles)]
         /\ UNCHANGED <<cache, btc_cache, btc_data_ready, regime_from,
                         daily_signals, last_signal_time, sent>>
    ELSE
    LET latch == symbol = BTC /\ tf = "15m" /\ Len(candles) >= BTC_MIN_CANDLES
                 /\ ~btc_data_ready
        ready == btc_data_ready \/ latch
        new_btc == IF symbol = BTC THEN [btc_cache EXCEPT ![tf] = candles]
                                   ELSE btc_cache
        stage == CloseStage(symbol, ready, new_btc["15m"], outcome)
    IN /\ cache' = [cache EXCEPT ![<<symbol, tf>>] = set_ohlcv(candles)]
       /\ btc_cache' = new_btc
       /\ btc_data_ready' = ready
       /\ regime_from' = IF latch THEN _update_regime(TRUE, new_btc["15m"])  \* engine.py:239-242
                                 ELSE regime_from
       /\ IF stage = "signal_sent"      \* engine.py:403-408
          THEN /\ last_signal_time' = [last_signal_time EXCEPT ![symbol] = now]
               /\ daily_signals' = daily_signals + 1
               /\ sent' = sent + 1
          ELSE UNCHANGED <<daily_signals, last_signal_time, sent>>
       /\ lastClose' = [symbol |-> symbol, tf |-> tf,
                        stage |-> stage,
                        ready_before |-> btc_data_ready,
                        ready_at_gate |-> ready,
                        n_candles |-> Len(candles)]

\* ArunabhaEngine.start: _seed_cache, _force_fetch_btc_data, ws_manager.start.
\* hb / he are what REST returns for the BTC and the other seeds, hf what the
\* forced BTC fetch ends with (a short or empty list after the last attempt).
EngineStart(hb, he, hf) ==
    /\ engineState = "new"
    /\ UNCHANGED <<riskVars, filterVars, signalVars, schedVars, taskVars>>
    /\ engineState' = "started"
    /\ cache' = [k \in Keys |->
                   IF k = <<BTC, "15m">>
                   THEN (IF hb # <<>> THEN set_ohlcv(hb) ELSE cache[k])
                   ELSE IF k[1] # BTC
                   THEN (IF he # <<>> THEN set_ohlcv(he) ELSE cache[k])
                   ELSE cache[k]]
    /\ IF Len(hf) >= BTC_MIN_CANDLES
       THEN /\ btc_cache' = [tf \in TIMEFRAMES |-> hf]
            /\ btc_data_ready' = TRUE
            /\ regime_from' = _update_regime(TRUE, hf)
            /\ bg_fetcher' = FALSE
       ELSE /\ UNCHANGED <<btc_cache, btc_data_ready, regime_from>>
            /\ bg_fetcher' = TRUE
    /\ wsState' = "connecting"
    /\ UNCHANGED <<wsCache, connected, retry_count, wait_time, msgs, closeCalls,
                   daily_signals, last_signal_time, sent, lastClose>>

\* ArunabhaEngine._background_btc_fetcher: one turn of its loop
BackgroundBtcFetch(h) ==
    /\ bg_fetcher
    /\ UNCHANGED <<riskVars, filterVars, signalVars, schedVars, taskVars>>
    /\ IF btc_data_ready
       THEN /\ bg_fetcher' = FALSE
            /\ UNCHANGED <<btc_cache, btc_data_ready, regime_from>>
       ELSE /\ Len(h) >= BTC_MIN_CANDLES
            /\ btc_cache' = [tf \in TIMEFRAMES |-> h]
            /\ btc_data_ready' = TRUE
            /\ regime_from' = _update_regime(TRUE, h)
            /\ bg_fetcher' = FALSE
    /\ UNCHANGED <<feedVars, engineState, cache, daily_signals, last_signal_time,
                   sent, lastClose>>

\* ==================================================== WebSocketManager
\* _connect_and_listen: ws_connect succeeded
WsConnected ==
    /\ wsState = "connecting"
    /\ UNCHANGED <<riskVars, filterVars, signalVars, schedVars, taskVars>>
    /\ wsState' = "listening"
    /\ connected' = TRUE
    /\ retry_count' = 0
    /\ UNCHANGED <<wsCache, wait_time, msgs, closeCalls, engineVars>>

\* _run_forever: _connect_and_listen raised (connect failure, receive
\* timeout, network error); line 327 is skipped, so _connected keeps its value
WsFailure ==
    /\ wsState \in {"connecting", "listening"}
    /\ UNCHANGED <<riskVars, filterVars, signalVars, schedVars, taskVars>>
    /\ retry_count' = retry_count + 1
    /\ wsState' = IF retry_count + 1 > WS_MAX_RETRIES THEN "dead" ELSE "waiting"
    /\ wait_time' = IF retry_count + 1 > WS_MAX_RETRIES THEN 0
                    ELSE WS_RECONNECT_DELAY * (2 ^ ((retry_count + 1) - 1))
    /\ UNCHANGED <<wsCache, connected, msgs, closeCalls, engineVars>>

\* _run_forever: asyncio.sleep(wait_time) is over
WsWaitDone ==
    /\ wsState = "waiting"
    /\ UNCHANGED <<riskVars, filterVars, signalVars, schedVars, taskVars>>
    /\ wsState' = "connecting"
    /\ wait_time' = 0
    /\ UNCHANGED <<wsCache, connected, retry_count, msgs, closeCalls, engineVars>>

\* _connect_and_listen: a CLOSED / ERROR message (or the end of the stream)
\* leaves the receive loop normally; _run_forever reconnects at once
WsClosed ==
    /\ wsState = "listening"
    /\ UNCHANGED <<riskVars, filterVars, signalVars, schedVars, taskVars>>
    /\ connected' = FALSE
    /\ wsState' = "connecting"
    /\ UNCHANGED <<wsCache, retry_count, wait_time, msgs, closeCalls, engineVars>>

\* WebSocketManager.is_connected
is_connected == connected

\* WebSocketManager._handle_message for a kline message
HandleMessage(symbol, tf, candle, is_closed, outcome) ==
    LET key == <<symbol, tf>>
        series == update_cache(wsCache[key], candle)
    IN /\ wsState = "listening"
       /\ msgs < MaxMsgs
       /\ UNCHANGED <<riskVars, filterVars, signalVars, schedVars, taskVars>>
       /\ msgs' = msgs + 1
       /\ wsCache' = [wsCache EXCEPT ![key] = series]
       /\ UNCHANGED <<wsState, connected, retry_count, wait_time, engineState, bg_fetcher>>
       /\ IF is_closed /\ series # <<>>
          THEN /\ closeCalls' = [closeCalls EXCEPT
                                    ![<<symbol, tf, candle>>] = Min(@ + 1, 2)]
               /\ OnCandleClose(symbol, tf, series, outcome)
          ELSE UNCHANGED <<closeCalls, cache, btc_cache, btc_data_ready, regime_from,
                           daily_signals, last_signal_time, sent, lastClose>>

FeedNext ==
    \/ \E h \in RestSeries, hf \in RestSeries : EngineStart(h, h, hf)
    \/ \E h \in RestSeries : BackgroundBtcFetch(h)
    \/ WsConnected
    \/ WsFailure
    \/ WsWaitDone
    \/ WsClosed
    \/ \E k \in Keys, t \in Times, x \in BOOLEAN, o \in Outcomes :
          HandleMessage(k[1], k[2], t, x, o)

\* the feed and the engine driven by the exchange
FeedSpec == Init /\ [][FeedNext]_vars

\* the RiskManager driven through its public calls
RiskSpec == Init /\ [][RiskNext]_vars

\* open trades held until their holding time is over
TimeoutSpec == Init /\ [][TimeoutNext]_vars

\* the FilterOrchestrator called with every kind of input
FilterSpec == Init /\ [][FilterNext]_vars

\* the SignalGenerator and the session gate called with every kind of input
SignalSpec == Init /\ [][SignalNext]_vars

\* the daily_reset task of the TradingScheduler against the local clock
SchedSpec == Init /\ [][SchedNext]_vars

\* the listener tasks under start, stop, resume and restart
TaskSpec == Init /\ [][TaskNext]_vars

\* ================================================================ claims

\* C1: on_candle_close is invoked at most once for every triple
\* (symbol, timeframe, open_time_ms), whatever kline messages arrive,
\* including a closed candle delivered again after a reconnect.
C1_CloseOncePerTriple == \A tr \in Triples : closeCalls[tr] <= 1

\* C2: every cached candle series, in the feed's cache and in the
\* CacheManager, is strictly increasing in open time in every reachable state.
C2_SeriesStrictlyIncreasing ==
    \A k \in Keys : StrictlyIncreasing(wsCache[k]) /\ StrictlyIncreasing(cache[k])

\* C3: a candle-close event leads to filter evaluation only with
\* btc_data_ready set when the gate is reached; an event that arrives while
\* the latch is still false is evaluated only if it is the BTC 15m close that
\* sets the latch (at least BTC_MIN_CANDLES candles), and the latch, once
\* set, is never cleared.
C3_NoEvaluationBeforeBtcReady ==
    lastClose.stage \in EvaluatedStages =>
        /\ lastClose.ready_at_gate
        /\ btc_data_ready
        /\ ~lastClose.ready_before =>
              /\ lastClose.symbol = BTC
              /\ lastClose.tf = "15m"
              /\ lastClose.n_candles >= BTC_MIN_CANDLES

\* C3 witness: a close of another symbol arrived before the latch was set
\* and was discarded
C3_Witness ==
    /\ lastClose.symbol = ETH
    /\ lastClose.tf = PRIMARY_TF
    /\ lastClose.stage = "btc_not_ready"
    /\ ~btc_data_ready

\* C4: at most MAX_CONCURRENT trades are active and the trade stored under
\* a symbol is that symbol's trade; a trade enters the active map only in an
\* approve_trade call for which can_trade was true and sizing was not blocked.
C4_ActiveTradesBounded ==
    /\ [](/\ Cardinality(ActiveSymbols) <= MAX_CONCURRENT
          /\ \A s \in ActiveSymbols : active_trades[s].symbol = s)
    /\ [][\A s \in Symbols :
            (active_trades[s] = NoTrade /\ active_trades'[s] # NoTrade) =>
                /\ can_trade(s) = [ok |-> "true", reason |-> "OK"]
                /\ lastCall'.op = "approve"
                /\ lastCall'.symbol = s
                /\ lastCall'.ok = "true"
                /\ ~lastCall'.blocked]_vars

\* C4 witness: an approve_trade call has just stored a trade
C4_Witness ==
    /\ lastCall.op = "approve"
    /\ lastCall.ok = "true"
    /\ active_trades[lastCall.symbol] # NoTrade

\* C5: can_trade(symbol) returns false whenever the daily lock is locked,
\* the drawdown maximum is reached, the loss tracker says stop, MAX_CONCURRENT
\* trades are active or the symbol has an active trade, and returns
\* (true, "OK") exactly when none of these holds.
C5_CanTradeContract ==
    \A s \in Symbols :
        LET refused == \/ daily_lock.is_locked
                       \/ drawdown.max_drawdown_reached
                       \/ should_stop
                       \/ Cardinality(ActiveSymbols) >= MAX_CONCURRENT
                       \/ active_trades[s] # NoTrade
        IN /\ refused => can_trade(s).ok = "false"
           /\ can_trade(s) = [ok |-> "true", reason |-> "OK"] <=> ~refused

\* the events a call of update_trade reports
Emitted(r) == {r.action} \ {"none"}

\* C6: every lifecycle transition made inside an update_trade call is
\* reported by that call: a call that marks the partial exit reports
\* PARTIAL_EXIT and a call that triggers break-even reports BREAK_EVEN.
C6_EveryTransitionReported ==
    \A s \in ActiveSymbols, p \in Prices :
        LET r == update_trade(s, p)
        IN /\ r.partial_now => "PARTIAL_EXIT" \in Emitted(r)
           /\ r.be_now => "BREAK_EVEN" \in Emitted(r)

\* C7: for an active trade whose partial exit is not yet done, an update at
\* a price whose profit is at least the risk the trade was opened with makes
\* the PARTIAL_EXIT transition, whether or not BREAK_EVEN was triggered
\* before.  (Stated through the transition itself; whether the returned
\* action survives the later overwrites is the subject of C6.)
C7_PartialExitAtOneR ==
    \A s \in ActiveSymbols, p \in Prices :
        LET r == update_trade(s, p)
        IN (~active_trades[s].partial_exit_done /\ r.at_one_r) => r.partial_now

\* C8: the stop of an active trade never moves against the trade (a LONG
\* stop never decreases, a SHORT stop never increases) and its only change
\* is the move to entry made when BREAK_EVEN triggers.
C8_StopOnlyMovesInFavour ==
    [][\A s \in Symbols :
         (active_trades[s] # NoTrade /\ active_trades'[s] # NoTrade) =>
            LET a == active_trades[s]
                b == active_trades'[s]
            IN /\ a.direction = "LONG" => b.stop_loss >= a.stop_loss
               /\ a.direction = "SHORT" => b.stop_loss <= a.stop_loss
               /\ b.stop_loss # a.stop_loss =>
                     /\ b.stop_loss = a.entry
                     /\ ~a.be_triggered
                     /\ b.be_triggered]_vars

\* C8 witness: break-even has moved the stop of an active trade to entry
C8_Witness ==
    \E s \in ActiveSymbols :
        /\ active_trades[s].be_triggered
        /\ active_trades[s].stop_loss = active_trades[s].entry
        /\ open_stop[s] # active_trades[s].entry

\* C9: daily_pnl equals the sum of the pnl_pct of the trades closed since
\* the last date rollover.
C9_DailyPnlIsSumSinceRollover == daily_lock.daily_pnl = pnl_since_rollover

\* C10: once the date has rolled over past the day the DailyLock state
\* belongs to, can_trade is not refused because of the daily lock.
C10_RolloverClearsDailyLock ==
    today > daily_lock.current_date =>
        \A s \in Symbols : can_trade(s).reason # "daily_lock"

\* the last MAX_CONSECUTIVE_LOSSES closes were all losses
LossStreak ==
    /\ loss_tracker.consecutive_losses >= MAX_CONSECUTIVE_LOSSES
    /\ loss_tracker.last_loss_time # NoTime

\* C11: after MAX_CONSECUTIVE_LOSSES consecutive losing closes, can_trade
\* is not granted for any query made within COOLDOWN_MINUTES of the last
\* loss (a call stopped by the daily-lock branch counts as not granted), and
\* once that window has elapsed with no further loss the consecutive-loss
\* rule no longer refuses.
C11_CooldownWindow ==
    \A s \in Symbols :
        /\ (LossStreak /\ now < loss_tracker.last_loss_time + COOLDOWN_MINUTES)
               => can_trade(s).ok # "true"
        /\ (LossStreak /\ now >= loss_tracker.last_loss_time + COOLDOWN_MINUTES)
               => can_trade(s).reason # "consecutive_losses"

\* C12: a daily reset completes without error and leaves the DailyLock
\* unlocked with zeroed counters and the consecutive-loss counter at 0 with
\* no cooldown pending.
C12_DailyResetCompletes ==
    lastCall.op = "reset_daily" =>
        /\ lastCall.ok = "true"
        /\ ~daily_lock.is_locked
        /\ daily_lock.daily_pnl = 0
        /\ daily_lock.daily_trades = 0
        /\ daily_lock.daily_wins = 0
        /\ daily_lock.daily_losses = 0
        /\ loss_tracker.consecutive_losses = 0
        /\ loss_tracker.cooling_until = NoTime

C14_CloseAppliesPnlOnce ==
    [][\A s \in Symbols, p \in ExitPrices :
         (active_trades[s] # NoTrade /\ CloseTrade(s, p)) =>
            LET t == active_trades[s]
                pnl == lastCall'.pnl
                fresh == today > daily_lock.current_date
            IN /\ active_trades' = [active_trades EXCEPT ![s] = NoTrade]
               /\ lastCall'.op = "close" /\ lastCall'.symbol = s
               /\ t.direction = "LONG" => pnl * t.entry = (p - t.entry) * 10000
               /\ t.direction = "SHORT" => pnl * t.entry = (t.entry - p) * 10000
               /\ daily_lock'.daily_pnl =
                     (IF fresh THEN 0 ELSE daily_lock.daily_pnl) + pnl
               /\ daily_lock'.daily_trades =
                     (IF fresh THEN 0 ELSE daily_lock.daily_trades) + 1
               /\ drawdown'.current_balance = drawdown.current_balance + pnl
               /\ loss_tracker'.consecutive_losses =
                     IF pnl < 0 THEN loss_tracker.consecutive_losses + 1 ELSE 0]_vars

\* C14 witness: a trade has just been closed at a loss
C14_Witness ==
    /\ lastCall.op = "close"
    /\ lastCall.pnl < 0
    /\ active_trades[lastCall.symbol] = NoTrade
    /\ loss_tracker.consecutive_losses >= 1
    /\ daily_lock.daily_pnl = lastCall.pnl
    /\ drawdown.current_balance = lastCall.pnl

\* C15: once check_timeouts has returned, no trade remains active whose
\* age exceeds its max_holding_minutes.
C15_TimeoutsClosed ==
    lastCall.op = "check_timeouts" =>
        \A s \in ActiveSymbols :
            now - active_trades[s].timestamp <= active_trades[s].max_holding_minutes

\* C16: for every FilterResult r returned by FilterOrchestrator.evaluate,
\* r.passed is true if and only if all five Tier-1 gates passed, r.score is
\* at least the threshold of the market type (trending 60, choppy 55,
\* high_vol 65, unknown 60), and the grade of r.score is one of A+, A, B+, B.
C16_PassedIffGatesScoreGrade ==
    (filter_result.op = "evaluate" /\ ~filter_result.raised) =>
       LET r == filter_result
           threshold == CASE r.market_type = "trending" -> 60
                          [] r.market_type = "choppy" -> 55
                          [] r.market_type = "high_vol" -> 65
                          [] r.market_type = "unknown" -> 60
       IN r.passed <=> ( /\ \A g \in Tier1Gates : r.tier1[g]
                         /\ r.score >= threshold
                         /\ from_score(r.score) \in {"A+", "A", "B+", "B"} )

\* a high_vol evaluation that cleared the threshold of 65 and passed
C16_Witness ==
    /\ filter_result.op = "evaluate"
    /\ filter_result.market_type = "high_vol"
    /\ filter_result.passed
    /\ filter_result.score >= 65

\* C17: every FilterResult returned by evaluate, whether it passed, failed
\* Tier 1 or failed Tier 2, carries the grade obtained from its own score by
\* the rule A+ >= 90, A >= 80, B+ >= 70, B >= 60, C >= 50, else D.
C17_GradeFromOwnScore ==
    (filter_result.op = "evaluate" /\ ~filter_result.raised) =>
       filter_result.grade =
          (IF filter_result.score >= 90 THEN "A+"
           ELSE IF filter_result.score >= 80 THEN "A"
           ELSE IF filter_result.score >= 70 THEN "B+"
           ELSE IF filter_result.score >= 60 THEN "B"
           ELSE IF filter_result.score >= 50 THEN "C"
           ELSE "D")

\* C18: FilterOrchestrator.evaluate never raises for any input, including a
\* BTC regime that is still unknown or uninitialised and candle data that is
\* missing or too short; in all such cases it returns a FilterResult with
\* passed = false.
C18_EvaluateNeverRaises ==
    filter_result.op = "evaluate" =>
       /\ ~filter_result.raised
       /\ ( \/ filter_result.btc_regime.kind \in {"None", "BTCRegime.UNKNOWN"}
            \/ ~filter_result.btc_regime.can_trade
            \/ filter_result.n_candles < MIN_FILTER_CANDLES )
          => ~filter_result.passed

\* C19: for each symbol, at most one signal is emitted per cooldown window:
\* the Engine never emits a signal for a symbol while fewer than
\* COOLDOWN_MINUTES have elapsed since the previous signal it emitted for
\* that symbol.
C19_OneSignalPerCooldown ==
    [][ \A s \in Symbols :
          ( /\ sent' # sent
            /\ lastClose'.symbol = s
            /\ last_signal_time[s] # NoTime )
          => now - last_signal_time[s] >= COOLDOWN_MINUTES ]_vars

\* C20: when, for a closed primary-timeframe candle, the filters pass, the
\* generator returns a valid signal and position sizing does not block it,
\* the Engine emits that signal to the notifier exactly once and increments
\* daily_signals by exactly one.
C20_ApprovedSignalEmittedOnce ==
    [][ \A k \in Keys, t \in Times :
          ( /\ HandleMessage(k[1], k[2], t, TRUE, "signal")
            /\ k[2] = PRIMARY_TF
            /\ lastClose'.stage \in {"process_error", "signal_sent"} )
          => ( /\ sent' = sent + 1
               /\ daily_signals' = daily_signals + 1 ) ]_vars

\* C21: in the WebSocket loop every reconnection attempt that follows a lost
\* or failed connection is preceded by a wait of WS_RECONNECT_DELAY * 2^(n-1)
\* seconds, n being the number of consecutive failures so far; the failure
\* counter returns to 0 on each successful connection; and after more than
\* WS_MAX_RETRIES consecutive failures the loop stops making attempts.
C21_BackoffBeforeReconnect ==
    /\ [][ (wsState' = "connecting" /\ wsState \notin {"idle", "connecting"})
              => ( /\ wsState = "waiting"
                   /\ retry_count >= 1
                   /\ wait_time = WS_RECONNECT_DELAY * (2 ^ (retry_count - 1)) ) ]_vars
    /\ [][ (wsState = "connecting" /\ wsState' = "listening") => retry_count' = 0 ]_vars
    /\ [][ retry_count > WS_MAX_RETRIES => wsState' = "dead" ]_vars

\* C22: once the feed has exhausted its reconnect attempts, the Engine is in
\* a degraded state that health reporting can observe (the feed is no longer
\* reported as connected), and no signal is emitted from that point on.
C22_ExhaustedFeedReportedDown ==
    /\ [](wsState = "dead" => ~is_connected)
    /\ [][ wsState = "dead" => sent' = sent ]_vars

\* C23: on each closed primary-timeframe candle for a symbol S, the Engine
\* refreshes the BTC regime before evaluating filters whenever S is BTC or
\* at least 60 seconds have passed since the last refresh, so filters are
\* never evaluated against a regime that predates the latest BTC 15m close.
C23_RegimeFreshAtEvaluation ==
    lastClose.stage \in EvaluatedStages => regime_from = btc_cache["15m"]

\* C24: a signal that generate returns has its rounded stop and target on
\* the correct sides of its entry (LONG: stop_loss < entry < take_profit;
\* SHORT: take_profit < entry < stop_loss)
C24_StopAndTargetOnCorrectSides ==
    /\ signal.direction = "LONG" =>
          (signal.stop_loss < signal.entry /\ signal.entry < signal.take_profit)
    /\ signal.direction = "SHORT" =>
          (signal.take_profit < signal.entry /\ signal.entry < signal.stop_loss)

\* C25: the session gate passes exactly when the IST hour lies in a session
\* window and in no avoid window, an avoid window that ends before it starts
\* covering the hours across midnight
C25_SessionGateWindows ==
    LET hour == session.hour
        in_session == \/ (7 <= hour /\ hour < 11) \/ (13 <= hour /\ hour < 17)
                      \/ (17 <= hour /\ hour < 22) \/ (22 <= hour /\ hour < 24)
        in_avoid == \E i \in DOMAIN AVOID_TIMES :
                       LET w == AVOID_TIMES[i]
                       IN IF w.end < w.start THEN hour >= w.start \/ hour < w.end
                          ELSE w.start <= hour /\ hour < w.end
    IN session.checked => (session.passed <=> (in_session /\ ~in_avoid))

\* C26: whenever btc_data_ready is true the BTC 15m series the engine uses
\* holds at least the minimum number of candles; no later candle close
\* replaces it with a shorter one
C26_ReadyBtcSeriesLongEnough ==
    btc_data_ready => Len(btc_cache["15m"]) >= BTC_MIN_CANDLES

\* C29: handling a candle-close event never shrinks the cached history of
\* (symbol, primary timeframe); a series seeded with CACHE_SIZE candles is
\* never replaced by a shorter one from the feed
C29_CandleCloseNeverShrinksCache ==
    [][ \A s \in Symbols :
           closeCalls' # closeCalls =>
              Len(cache'[<<s, PRIMARY_TF>>]) >= Len(cache[<<s, PRIMARY_TF>>]) ]_vars

\* C27: while the scheduler runs, the daily reset is executed at every local
\* midnight, once per day, whatever the time the scheduler was started at:
\* every midnight the running task has come past has had exactly one run
C27_DailyResetEveryMidnight ==
    \A d \in SchedDays :
       (sched_started_at < d * DayTicks /\ sched_clock > d * DayTicks)
          => reset_runs[d] = 1

\* C28: trading is never blocked for good: when can_trade is false because of
\* the daily lock, the maximum drawdown or the consecutive-loss stop and no
\* trade is active, can_trade is true again at the latest after the next
\* daily reset
C28_TradingUnblockedByDailyReset ==
    (lastCall.op = "reset_daily" /\ ActiveSymbols = {})
        => \A s \in Symbols : can_trade(s).ok = "true"

\* C30: under any sequence of start, stop, resume and restart at most one
\* WebSocket listener task runs at any time, and after stop() has returned no
\* listener task is left that could still invoke on_candle_close
C30_AtMostOneListener ==
    /\ Cardinality(LiveTasks) <= 1
    /\ last_op = "stop" => LiveTasks = {}
    /\ ~late_callbacks

====
